---- MODULE Spec2Model ----
(***************************************************************************)
(* A model of qpod/proxy/handlers.py.                                      *)
(*                                                                         *)
(* Three parts share this module:                                          *)
(*   - SuperviseAndProxyHandler: the per-target process record (the dict   *)
(*     `state` with its keys 'proc_lock', 'proc' and 'port') and           *)
(*     ensure_process, run by concurrent requests on one cooperative event *)
(*     loop.  Every action is the code that runs between two suspension    *)
(*     points (await).  Specifications Spec and FairSpec.                  *)
(*   - LocalProxyHandler's WebSocket bridge: open, the scheduled           *)
(*     start_websocket_connection, on_message, on_ping, on_close and the   *)
(*     backend callbacks message_cb and ping_cb, for one session.          *)
(*     Specification SpecWS.                                               *)
(*   - LocalProxyHandler.proxy: the request built for the backend and the  *)
(*     response relayed to the client.  Specification SpecHTTP applies it  *)
(*     to every call and response of one request; SpecTraffic runs several *)
(*     requests and a WebSocket session together while the clock that      *)
(*     _record_activity reads advances.                                    *)
(*                                                                         *)
(* A request that ensure_process has let through goes on as a request of   *)
(* LocalProxyHandler, which the second and third part model.               *)
(*                                                                         *)
(* ensure_process is written `with (await self.state['proc_lock'])`, the   *)
(* asyncio idiom of Python <= 3.8: the lock is acquired (first come, first *)
(* served) and released when the block is left, normally or by raise.      *)
(***************************************************************************)
EXTENDS Naturals, Sequences, FiniteSets

\* ------------------------------------------------------------------ bounds

NumRequests == 3
NumTargets == 2
\* Frames arriving in one WebSocket session, both sides together.
MaxFrames == 3
\* Plain HTTP requests in flight together.
NumHttp == 2
\* Headers in one backend response.
MaxHeaders == 2
\* The last reading of the clock.
MaxClock == 2
\* Frames of the WebSocket session that shares the clock with the HTTP requests.
TrafficFrames == 1

Requests == 1..NumRequests
HttpReqs == 1..NumHttp
Targets == 1..NumTargets

\* A lock object is named after the request whose initialize() created it; a
\* SupervisedProcess after the request whose ensure_process constructed it.
NoLock == 0
NoProc == 0
NoPort == 0

\* The entry points of a supervised request: the HTTP verbs (http_get, post,
\* put, ...) and the WebSocket open().
Kinds == {"http", "ws"}

VARIABLES
    state,      \* state[t]: the dict shared by the handlers of target t:
                \*   proc_lock (NoLock: key absent), proc (NoProc: key absent),
                \*   port (NoPort: key absent)
    locks,      \* locks[l]: asyncio.Lock l: locked, waiters (FIFO)
    procs,      \* procs[p]: the operating-system side of SupervisedProcess p
    req,        \* req[r]: request r's handler and the position of its coroutine
    cohort,     \* cohort[t]: the requests that entered ensure_process on t
                \*   before any call on t had returned or raised
    spawnLog,   \* spawnLog[t]: the requests that spawned for t, in order
    front,      \* the front-facing connection of the WebSocket session
    has_ws,     \* hasattr(self, 'ws')
    back,       \* the backend connection of the session
    arrived,    \* the frames that arrived at the proxy, from either side, in
                \*   order; a frame is known by its index here
    toBack,     \* what was written to the backend connection, in order
    toFront,    \* what was written to the front-facing connection, in order
    http,       \* http[h]: the handler of plain HTTP request h: the call of
                \*   proxy(), the request built, the backend's response and
                \*   the response written to the client
    clock,      \* the time utcnow() returns
    api_last_activity   \* settings['api_last_activity']

supVars == <<state, locks, procs, req, cohort, spawnLog>>

wsVars == <<front, has_ws, back, arrived, toBack, toFront>>

\* What the actions of SuperviseAndProxyHandler, of the WebSocket bridge and
\* of LocalProxyHandler.proxy leave alone.
otherVars == <<wsVars, http, clock, api_last_activity>>

wsOther == <<supVars, http, clock>>

httpOther == <<supVars, wsVars, clock>>

vars == <<state, locks, procs, req, cohort, spawnLog,
          front, has_ws, back, arrived, toBack, toFront,
          http, clock, api_last_activity>>

\* --------------------------------------------------------------- the record

NewRequest ==
    [pc |-> "new", tgt |-> 0, lk |-> NoLock, holds |-> FALSE,
     result |-> "none", path |-> "none", kills |-> 0, readyRes |-> "none",
     issued |-> FALSE]

InitSup ==
    /\ state = [t \in Targets |->
                    [proc_lock |-> NoLock, proc |-> NoProc, port |-> NoPort]]
    /\ locks = [l \in Requests |-> [locked |-> FALSE, waiters |-> <<>>]]
    /\ procs = [p \in Requests |-> "none"]
    /\ req = [r \in Requests |-> NewRequest]
    /\ cohort = [t \in Targets |-> {}]
    /\ spawnLog = [t \in Targets |-> <<>>]

\* initialize(): the first handler of a target creates the lock, the others
\* find it in the shared dict.
initialize_shared(st, r, t) ==
    IF st[t].proc_lock # NoLock
    THEN st
    ELSE IF \E u \in Targets : st[u].proc_lock # NoLock
         THEN [st EXCEPT ![t].proc_lock =
                   st[CHOOSE u \in Targets : st[u].proc_lock # NoLock].proc_lock]
         ELSE [st EXCEPT ![t].proc_lock = r]

initialize(st, r, t) ==
    IF st[t].proc_lock = NoLock THEN [st EXCEPT ![t].proc_lock = r] ELSE st

\* The number the operating system gives to a socket bound to port 0.
EphemeralPort(t) ==
    49152 + t

\* The property `port`: the first read allocates the port of the target.
port(st, t) ==
    IF st[t].port = NoPort THEN [st EXCEPT ![t].port = EphemeralPort(t)] ELSE st

\* 'proc' in self.state
HasProc_never(st, t) ==
    FALSE

HasProc(st, t) ==
    st[t].proc # NoProc

\* Lock.release(): unlock; the first waiter, if any, is woken and runs later.
release(lks, l) ==
    [lks EXCEPT ![l].locked = FALSE]

\* Lock.acquire() returns at once only when the lock is free and nobody waits.
LockFree_always(lks, l) ==
    TRUE

LockFree(lks, l) ==
    ~lks[l].locked /\ lks[l].waiters = <<>>

Finished(r) ==
    req[r].result # "none"

InEnsure(r) ==
    req[r].pc \in {"waiting", "starting", "readying", "killing"}

\* The response tornado sends for an exception that leaves proxy(): the status
\* of a web.HTTPError, 500 for any other exception.
Failures == {"HTTPError500", "StartError", "ReadyError", "KillError"}

StatusOf(res) ==
    IF res \in Failures THEN 500 ELSE 0

\* Leaving the `with` block by an exception: the bare `except:` deletes the
\* handle, the exception is raised again and the lock is released on the way
\* out.  rq is req with what the failing step itself recorded.
Fail_keep(r, rq, e) ==
    /\ state' = state
    /\ locks' = release(locks, rq[r].lk)
    /\ req' = [rq EXCEPT ![r].pc = "failed", ![r].holds = FALSE, ![r].result = e]

Fail_httponly(r, rq, e) ==
    /\ state' = IF e = "HTTPError500"
                THEN [state EXCEPT ![rq[r].tgt].proc = NoProc]
                ELSE state
    /\ locks' = release(locks, rq[r].lk)
    /\ req' = [rq EXCEPT ![r].pc = "failed", ![r].holds = FALSE, ![r].result = e]

Fail_locked(r, rq, e) ==
    /\ state' = [state EXCEPT ![rq[r].tgt].proc = NoProc]
    /\ locks' = locks
    /\ req' = [rq EXCEPT ![r].pc = "failed", ![r].result = e]

Fail(r, rq, e) ==
    /\ state' = [state EXCEPT ![rq[r].tgt].proc = NoProc]
    /\ locks' = release(locks, rq[r].lk)
    /\ req' = [rq EXCEPT ![r].pc = "failed", ![r].holds = FALSE, ![r].result = e]

\* ensure_process returns: the lock is released and the caller, proxy() or
\* open(), goes on to the method of LocalProxyHandler that reaches the backend
\* (proxy: client.fetch; open: the scheduled backend connection).
Succeed(r, rq, lks, how) ==
    /\ locks' = release(lks, rq[r].lk)
    /\ req' = [rq EXCEPT ![r].pc = "forwarding",
                         ![r].holds = FALSE,
                         ![r].result = "ok",
                         ![r].issued = TRUE,
                         ![r].path = how]

\* The body of the `with` block, entered by request r, with rq, st and lks the
\* requests, the dict and the locks as they are once the lock is taken.
Critical(r, rq, st, lks) ==
    LET t == rq[r].tgt
    IN  IF HasProc(st, t)
        THEN \* the handle exists: nothing to do
             /\ state' = st
             /\ Succeed(r, rq, lks,
                        IF procs[st[t].proc] = "exited" THEN "fast_dead" ELSE "fast")
             /\ UNCHANGED <<procs, spawnLog>>
        ELSE \* SupervisedProcess(...); state['proc'] = proc; await proc.start()
             /\ state' = [st EXCEPT ![t].proc = r]
             /\ locks' = lks
             /\ procs' = [procs EXCEPT ![r] = "starting"]
             /\ spawnLog' = [spawnLog EXCEPT ![t] = Append(@, r)]
             /\ req' = [rq EXCEPT ![r].pc = "starting",
                                  ![r].holds = TRUE,
                                  ![r].path = "spawn"]

\* -------------------------------------------------------------- the actions

\* A request for target t arrives: its handler is constructed (initialize).
\* An HTTP verb evaluates self.port for its call of proxy(self.port, path),
\* before proxy() calls ensure_process; open() calls ensure_process first.
\* ensure_process takes the lock at once or queues on it.  Requests are
\* numbered in their order of arrival, targets in the order of their first
\* request.
Request(r, t, k) ==
    /\ req[r].pc = "new"
    /\ UNCHANGED otherVars
    /\ \A q \in Requests : q < r => req[q].pc # "new"
    /\ \A u \in Targets : u < t => state[u].proc_lock # NoLock
    /\ LET st0 == initialize(state, r, t)
           st == IF k = "http" THEN port(st0, t) ELSE st0
           l  == st[t].proc_lock
           rq == [req EXCEPT ![r].tgt = t, ![r].lk = l]
       IN  /\ cohort' = IF \A q \in Requests : req[q].tgt = t => ~Finished(q)
                        THEN [cohort EXCEPT ![t] = @ \cup {r}]
                        ELSE cohort
           /\ IF LockFree(locks, l)
              THEN Critical(r, [rq EXCEPT ![r].holds = TRUE], st,
                            [locks EXCEPT ![l].locked = TRUE])
              ELSE /\ state' = st
                   /\ locks' = [locks EXCEPT ![l].waiters = Append(@, r)]
                   /\ req' = [rq EXCEPT ![r].pc = "waiting"]
                   /\ UNCHANGED <<procs, spawnLog>>

\* The lock was released and r is its first waiter: r takes it and goes on.
LockGranted(r) ==
    /\ req[r].pc = "waiting"
    /\ UNCHANGED otherVars
    /\ LET l == req[r].lk
       IN  /\ ~locks[l].locked
           /\ locks[l].waiters # <<>>
           /\ Head(locks[l].waiters) = r
           /\ Critical(r, [req EXCEPT ![r].holds = TRUE], state,
                       [locks EXCEPT ![l] = [locked |-> TRUE,
                                             waiters |-> Tail(@.waiters)]])
    /\ UNCHANGED cohort

\* await proc.start() returns, or raises.
StartReturns(r, ok) ==
    /\ req[r].pc = "starting"
    /\ UNCHANGED otherVars
    /\ IF ok
       THEN \* await proc.ready(): its probe, _http_ready_func, reads self.port
            /\ procs' = [procs EXCEPT ![r] = "running"]
            /\ req' = [req EXCEPT ![r].pc = "readying"]
            /\ state' = port(state, req[r].tgt)
            /\ UNCHANGED locks
       ELSE /\ procs' = [procs EXCEPT ![r] = "nostart"]
            /\ Fail(r, req, "StartError")
    /\ UNCHANGED <<cohort, spawnLog>>

ReadyReturns_nokill(r, res) ==
    /\ req[r].pc = "readying"
    /\ UNCHANGED otherVars
    /\ LET rq == [req EXCEPT ![r].readyRes = res]
       IN  CASE res = "true" ->
                    /\ Succeed(r, rq, locks, "spawn")
                    /\ UNCHANGED state
             [] res = "false" ->
                    Fail(r, rq, "HTTPError500")
             [] OTHER ->
                    Fail(r, rq, "ReadyError")
    /\ UNCHANGED <<procs, cohort, spawnLog>>

\* await proc.ready() returns True or False, or raises.
ReadyReturns(r, res) ==
    /\ req[r].pc = "readying"
    /\ UNCHANGED otherVars
    /\ LET rq == [req EXCEPT ![r].readyRes = res]
       IN  CASE res = "true" ->
                    /\ Succeed(r, rq, locks, "spawn")
                    /\ UNCHANGED state
             [] res = "false" ->
                    \* await proc.kill()
                    /\ req' = [rq EXCEPT ![r].pc = "killing", ![r].kills = @ + 1]
                    /\ UNCHANGED <<state, locks>>
             [] OTHER ->
                    Fail(r, rq, "ReadyError")
    /\ UNCHANGED <<procs, cohort, spawnLog>>

\* await proc.kill() returns, and HTTPError(500) is raised; or kill raises.
KillReturns(r, ok) ==
    /\ req[r].pc = "killing"
    /\ UNCHANGED otherVars
    /\ IF ok
       THEN /\ procs' = [procs EXCEPT ![r] = "killed"]
            /\ Fail(r, req, "HTTPError500")
       ELSE /\ UNCHANGED procs
            /\ Fail(r, req, "KillError")
    /\ UNCHANGED <<cohort, spawnLog>>

\* A process that passed its readiness check exits by itself, or is killed
\* from outside.  (One that exits earlier shows in what ready() returns.)
ProcExit(p) ==
    /\ procs[p] = "running"
    /\ UNCHANGED otherVars
    /\ req[p].readyRes = "true"
    /\ procs' = [procs EXCEPT ![p] = "exited"]
    /\ UNCHANGED <<state, locks, req, cohort, spawnLog>>

NextSup ==
    \/ \E r \in Requests, t \in Targets, k \in Kinds : Request(r, t, k)
    \/ \E r \in Requests : LockGranted(r)
    \/ \E r \in Requests, ok \in BOOLEAN : StartReturns(r, ok)
    \/ \E r \in Requests, res \in {"true", "false", "raise"} : ReadyReturns(r, res)
    \/ \E r \in Requests, ok \in BOOLEAN : KillReturns(r, ok)
    \/ \E p \in Requests : ProcExit(p)

\* ------------------------------------------------------------- activity

\* _record_activity(): the time of now overwrites the shared timestamp.
_record_activity_stale ==
    api_last_activity' = api_last_activity

_record_activity ==
    api_last_activity' = clock

InitClock ==
    /\ clock = 0
    /\ api_last_activity = 0

\* Time passes: utcnow() never goes back.
Tick ==
    /\ clock < MaxClock
    /\ clock' = clock + 1
    /\ UNCHANGED <<supVars, wsVars, http, api_last_activity>>

\* ------------------------------------------------- the HTTP forwarder

\* A string is the sequence of its pieces: "/app" is <<"/", "app">>.
base_url == <<"/", "app">>

\* What a handler is configured with and what a request brings: the rewrite
\* mode ('/x' stands for every value other than '/' and ''), proxy_base ('' or
\* a path), the port and path of the call of proxy(), the query string,
\* whether the request asks for a WebSocket upgrade, and its method.
Rewrites == {"/", "", "/x"}

ProxyBases == {<<>>, <<"pb">>}

Ports == {9000, 9001}

Paths == {<<"/", "foo">>, <<"/", "a", "/", "b", "/">>}

Queries == {"", "x=1"}

Calls ==
    [rewrite : Rewrites, proxy_base : ProxyBases, port : Ports, path : Paths,
     query : Queries, upgrade : BOOLEAN, method : {"GET", "POST"}]

\* str(port)
str(n) ==
    CASE n = 9000 -> "9000"
      [] n = 9001 -> "9001"

\* piece.strip('/')
strip(piece) ==
    LET a == IF piece # <<>> /\ Head(piece) = "/" THEN Tail(piece) ELSE piece
    IN  IF a # <<>> /\ a[Len(a)] = "/" THEN SubSeq(a, 1, Len(a) - 1) ELSE a

RECURSIVE join(_)
\* '/'.join(pieces)
join(pieces) ==
    IF pieces = <<>> THEN <<>>
    ELSE IF Len(pieces) = 1 THEN Head(pieces)
    ELSE Head(pieces) \o <<"/">> \o join(Tail(pieces))

\* url_path_join(*pieces): the pieces, stripped of their slashes, joined by
\* one slash; the slash that starts the first piece and the one that ends the
\* last are kept.
url_path_join(pieces) ==
    LET first == pieces[1]
        last == pieces[Len(pieces)]
        inner == SelectSeq([i \in 1..Len(pieces) |-> strip(pieces[i])],
                           LAMBDA x : x # <<>>)
    IN  (IF first # <<>> /\ Head(first) = "/" THEN <<"/">> ELSE <<>>)
        \o join(inner)
        \o (IF last # <<>> /\ last[Len(last)] = "/" THEN <<"/">> ELSE <<>>)

\* _get_context_path(port): the path, or the ValueError raised.
_get_context_path_port(c) ==
    IF c.rewrite \in {"/", ""}
    THEN [raised |-> FALSE,
          value |-> url_path_join(<<base_url, <<"proxy">>, <<str(c.port)>>>>)]
    ELSE [raised |-> TRUE, value |-> <<"Unsupported rewrite">>]

_get_context_path(c) ==
    IF c.proxy_base # <<>>
    THEN [raised |-> FALSE, value |-> url_path_join(<<base_url, c.proxy_base>>)]
    ELSE IF c.rewrite \in {"/", ""}
         THEN [raised |-> FALSE,
               value |-> url_path_join(<<base_url, <<"proxy">>, <<str(c.port)>>>>)]
         ELSE [raised |-> TRUE, value |-> <<"Unsupported rewrite">>]

\* A header dict is the set of its <<name, value>> pairs.
set(headers, name, value) ==
    {p \in headers : p[1] # name} \cup {<<name, value>>}

\* self.request.headers as the request arrives.
RequestHeaders(c) ==
    {<<"Host", <<"front">>>>, <<"Proxy-Connection", <<"keep-alive">>>>}
        \cup (IF c.upgrade THEN {<<"Upgrade", <<"websocket">>>>} ELSE {})

\* _build_proxy_request(port, proxied_path, body): the HTTPRequest, or the
\* ValueError of _get_context_path.  headers is self.request.headers.
_build_proxy_request(c, headers, body) ==
    LET context == _get_context_path(c)
        context_path == context.value
        client_path == IF c.rewrite # ""
                       THEN c.path
                       ELSE url_path_join(<<context_path, c.path>>)
        client_uri == <<"http://localhost", ":", str(c.port)>> \o client_path
                          \o (IF c.query # "" THEN <<"?", c.query>> ELSE <<>>)
    IN  IF context.raised
        THEN [raised |-> TRUE, value |-> context.value]
        ELSE [raised |-> FALSE,
              uri |-> client_uri,
              method |-> c.method,
              body |-> body,
              headers |-> IF c.rewrite # ""
                          THEN set(set(headers, "X-Forwarded-Context", context_path),
                                   "X-ProxyContextPath", context_path)
                          ELSE headers]

\* What client.fetch(req, raise_error=False) returns.  error is None, an
\* httpclient.HTTPError for a response whose status is not 2xx, or what went
\* wrong below HTTP: an exception that is no HTTPError, or one of a subclass
\* of HTTPError.
NoError == [type |-> "None", text |-> ""]

Stripped == {"Content-Length", "Transfer-Encoding", "Content-Encoding", "Connection"}

HeaderOptions ==
    [name : Stripped, value : {"v"}] \cup [name : {"Set-Cookie"}, value : {"a", "b"}]

HeaderLists ==
    UNION {[1..n -> HeaderOptions] : n \in 0..MaxHeaders}

Statuses ==
    {[code |-> 200, reason |-> "OK", error |-> NoError],
     [code |-> 404, reason |-> "Not Found",
      error |-> [type |-> "HTTPError", text |-> "HTTP 404: Not Found"]],
     [code |-> 502, reason |-> "Bad Gateway",
      error |-> [type |-> "HTTPError", text |-> "HTTP 502: Bad Gateway"]]}

Failed ==
    {[code |-> 599, reason |-> "Unknown",
      error |-> [type |-> "HTTPTimeoutError", text |-> "Timeout while connecting"]],
     [code |-> 599, reason |-> "Unknown",
      error |-> [type |-> "ConnectionRefusedError", text |-> "Connection refused"]]}

Response(st, headers, body) ==
    [code |-> st.code, reason |-> st.reason, error |-> st.error,
     headers |-> headers, body |-> body]

Responses ==
    {Response(st, hs, b) : st \in Statuses, hs \in HeaderLists, b \in {"", "data"}}
        \cup {Response(st, <<>>, "") : st \in Failed}

\* What tornado puts in the headers of a response before the handler runs.
DefaultHeaders ==
    <<[name |-> "Server", value |-> "TornadoServer"],
      [name |-> "Content-Type", value |-> "text/html; charset=UTF-8"]>>

\* A handler before its method runs: status 200, the default headers, an
\* empty write buffer.  recs counts its calls of _record_activity.
NewHandler ==
    [pc |-> "new",
     call |-> [absent |-> TRUE], out |-> [absent |-> TRUE], resp |-> [absent |-> TRUE],
     client |-> [status |-> 200, reason |-> "OK",
                 headers |-> DefaultHeaders, body |-> <<>>],
     recs |-> 0]

InitHTTP ==
    http = [h \in HttpReqs |-> NewHandler]

\* set_status(500): tornado looks the reason up.
set_status_500(w) ==
    [w EXCEPT !.status = 500, !.reason = "Internal Server Error"]

\* add_header(name, value) keeps the values the name already has.
add_header_set(headers, name, value) ==
    SelectSeq(headers, LAMBDA x : x.name # name) \o <<[name |-> name, value |-> value]>>

add_header(headers, name, value) ==
    Append(headers, [name |-> name, value |-> value])

RECURSIVE copy_headers(_, _)
\* for header, v in response.headers.get_all(): ...
copy_headers(headers, rest) ==
    IF rest = <<>> THEN headers
    ELSE copy_headers(IF Head(rest).name \notin Stripped
                      THEN add_header(headers, Head(rest).name, Head(rest).value)
                      ELSE headers,
                      Tail(rest))

\* response.error and type(response.error) is not httpclient.HTTPError
not_http_error_isinstance(error) ==
    error.type \notin {"None", "HTTPError", "HTTPTimeoutError"}

not_http_error(error) ==
    error.type # "None" /\ error.type # "HTTPError"

\* The end of proxy(), after the fetch: w is the response written so far.
relay(w, response) ==
    IF not_http_error(response.error)
    THEN [set_status_500(w) EXCEPT !.body = Append(@, response.error.text)]
    ELSE [w EXCEPT !.status = response.code,
                   !.reason = response.reason,
                   !.headers = copy_headers(<<>>, response.headers),
                   !.body = IF response.body # "" THEN Append(@, response.body) ELSE @]

\* proxy(port, proxied_path) up to its await of the fetch, for a call among
\* calls.  A ValueError of _build_proxy_request leaves the method: tornado
\* answers 500 and nothing is fetched.
proxy(h, calls) ==
    /\ http[h].pc = "new"
    /\ UNCHANGED httpOther
    /\ _record_activity
    /\ \E c \in calls :
       LET headers == {p \in RequestHeaders(c) : p[1] # "Proxy-Connection"}
           w == IF c.upgrade THEN set_status_500(http[h].client) ELSE http[h].client
           body == IF c.method = "POST" THEN "b''" ELSE "None"
           request == _build_proxy_request(c, headers, body)
       IN  http' = [http EXCEPT ![h] =
                        [@ EXCEPT !.pc = IF request.raised THEN "error" ELSE "fetching",
                                  !.call = c,
                                  !.out = request,
                                  !.client = IF request.raised
                                             THEN set_status_500(w) ELSE w,
                                  !.recs = @ + 1]]

\* The fetch returns one of responses and proxy() runs to its end.
fetched(h, responses) ==
    /\ http[h].pc = "fetching"
    /\ UNCHANGED httpOther
    /\ _record_activity
    /\ \E response \in responses :
           http' = [http EXCEPT ![h] =
                        [@ EXCEPT !.pc = "done",
                                  !.resp = response,
                                  !.client = relay(@, response),
                                  !.recs = @ + 1]]

\* ------------------------------------------------- the WebSocket bridge

Payloads == {"a", "b"}

\* What tornado hands to on_message and to the backend's message callback: a
\* str for a text frame, bytes for a binary frame.  A ping carries bytes.
Messages == [op : {"message"}, type : {"str", "bytes"}, data : Payloads]

Pings == [op : {"ping"}, type : {"bytes"}, data : Payloads]

InitWS ==
    /\ front = "init"
    /\ has_ws = FALSE
    /\ back = "none"
    /\ arrived = <<>>
    /\ toBack = <<>>
    /\ toFront = <<>>

\* isinstance(message, bytes)
isbytes_never(m) ==
    FALSE

isbytes(m) ==
    m.type = "bytes"

\* write_message(message, binary=flag): the frame that goes on the wire.
DataFrame(id, m) ==
    [id |-> id, kind |-> IF isbytes(m) THEN "binary" ELSE "text", data |-> m.data]

\* write_ping(data), ping(data)
PingFrame(id, d) ==
    [id |-> id, kind |-> "ping", data |-> d]

\* A frame from `side` arrives; its index in `arrived` names it.  With the
\* frame is kept whether self.ws was assigned when it arrived and whether the
\* connection it is relayed to was open then.
Arrive(side, m) ==
    /\ Len(arrived) < MaxFrames
    /\ arrived' = Append(arrived, [side |-> side, op |-> m.op,
                                   type |-> m.type, data |-> m.data,
                                   has_ws |-> has_ws,
                                   peer_open |-> IF side = "front"
                                                 THEN back = "open"
                                                 ELSE front = "open"])

\* open(): the client's WebSocket handshake is accepted and the backend
\* connection is scheduled on the event loop.
open ==
    /\ front = "init"
    /\ UNCHANGED wsOther
    /\ front' = "open"
    /\ back' = "scheduled"
    /\ UNCHANGED <<has_ws, arrived, toBack, toFront, api_last_activity>>

\* The scheduled callback runs up to its await of the backend handshake.
start_websocket_connection ==
    /\ back = "scheduled"
    /\ UNCHANGED wsOther
    /\ _record_activity
    /\ back' = "connecting"
    /\ UNCHANGED <<front, has_ws, arrived, toBack, toFront>>

\* The frame written for the frame that arrived as number id.
FrameOf(id) ==
    IF arrived[id].op = "ping"
    THEN PingFrame(id, arrived[id].data)
    ELSE DataFrame(id, arrived[id])

\* The handshake completes and self.ws is assigned, or it fails and the
\* exception leaves the callback with self.ws never assigned.
connected_flush(ok) ==
    /\ back = "connecting"
    /\ UNCHANGED wsOther
    /\ IF ok
       THEN /\ has_ws' = TRUE /\ back' = "open"
            /\ _record_activity
            /\ toBack' = toBack \o [i \in 1..Len(arrived) |-> FrameOf(i)]
       ELSE /\ has_ws' = has_ws /\ back' = "failed"
            /\ UNCHANGED <<api_last_activity, toBack>>
    /\ UNCHANGED <<front, arrived, toFront>>

connected(ok) ==
    /\ back = "connecting"
    /\ UNCHANGED wsOther
    /\ IF ok
       THEN has_ws' = TRUE /\ back' = "open" /\ _record_activity
       ELSE has_ws' = has_ws /\ back' = "failed" /\ UNCHANGED api_last_activity
    /\ UNCHANGED <<front, arrived, toBack, toFront>>

\* on_message(message): a text or binary frame from the client.  Writing to a
\* backend connection that has closed raises and writes nothing.
on_message_prepend(m) ==
    /\ front \in {"open", "closing"}
    /\ UNCHANGED wsOther
    /\ _record_activity
    /\ Arrive("front", m)
    /\ toBack' = IF has_ws /\ back = "open"
                 THEN <<DataFrame(Len(arrived) + 1, m)>> \o toBack
                 ELSE toBack
    /\ UNCHANGED <<front, has_ws, back, toFront>>

on_message(m) ==
    /\ front \in {"open", "closing"}
    /\ UNCHANGED wsOther
    /\ _record_activity
    /\ Arrive("front", m)
    /\ toBack' = IF has_ws /\ back = "open"
                 THEN Append(toBack, DataFrame(Len(arrived) + 1, m))
                 ELSE toBack
    /\ UNCHANGED <<front, has_ws, back, toFront>>

\* on_ping(data): a ping from the client.
on_ping(m) ==
    /\ front \in {"open", "closing"}
    /\ UNCHANGED wsOther
    /\ _record_activity
    /\ Arrive("front", m)
    /\ toBack' = IF has_ws /\ back = "open"
                 THEN Append(toBack, PingFrame(Len(arrived) + 1, m.data))
                 ELSE toBack
    /\ UNCHANGED <<front, has_ws, back, toFront>>

\* on_close(): the front-facing connection has closed.
on_close_keep ==
    /\ front \in {"open", "closing"}
    /\ UNCHANGED wsOther
    /\ UNCHANGED api_last_activity
    /\ front' = "closed"
    /\ UNCHANGED <<has_ws, back, arrived, toBack, toFront>>

on_close ==
    /\ front \in {"open", "closing"}
    /\ UNCHANGED wsOther
    /\ UNCHANGED api_last_activity
    /\ front' = "closed"
    /\ back' = IF has_ws /\ back = "open" THEN "closed" ELSE back
    /\ UNCHANGED <<has_ws, arrived, toBack, toFront>>

\* message_cb(message): a text or binary frame from the backend.  Writing to a
\* front-facing connection that is closing or closed raises and writes nothing.
message_cb(m) ==
    /\ back = "open"
    /\ UNCHANGED wsOther
    /\ _record_activity
    /\ Arrive("back", m)
    /\ toFront' = IF front = "open"
                  THEN Append(toFront, DataFrame(Len(arrived) + 1, m))
                  ELSE toFront
    /\ UNCHANGED <<front, has_ws, back, toBack>>

\* message_cb(None): the backend connection has closed; self.close() starts
\* the closing handshake of the front-facing connection.
message_cb_None ==
    /\ back = "open"
    /\ UNCHANGED wsOther
    /\ _record_activity
    /\ back' = "closed"
    /\ front' = IF front = "open" THEN "closing" ELSE front
    /\ UNCHANGED <<has_ws, arrived, toBack, toFront>>

\* ping_cb(data): a ping from the backend.
ping_cb(m) ==
    /\ back = "open"
    /\ UNCHANGED wsOther
    /\ _record_activity
    /\ Arrive("back", m)
    /\ toFront' = IF front = "open"
                  THEN Append(toFront, PingFrame(Len(arrived) + 1, m.data))
                  ELSE toFront
    /\ UNCHANGED <<front, has_ws, back, toBack>>

NextWS ==
    \/ open
    \/ start_websocket_connection
    \/ \E ok \in BOOLEAN : connected(ok)
    \/ \E m \in Messages : on_message(m)
    \/ \E m \in Pings : on_ping(m)
    \/ on_close
    \/ \E m \in Messages : message_cb(m)
    \/ message_cb_None
    \/ \E m \in Pings : ping_cb(m)

\* Every call and every response, for one request.
NextHTTP ==
    \/ proxy(1, Calls)
    \/ fetched(1, Responses)

\* Requests and a WebSocket session that go on together while time passes.
PlainCall ==
    [rewrite |-> "/", proxy_base |-> <<>>, port |-> 9000, path |-> <<"/", "foo">>,
     query |-> "", upgrade |-> FALSE, method |-> "GET"]

PlainResponses ==
    {Response(st, <<>>, "") :
        st \in {x \in Statuses \cup Failed :
                  x.error.type \in {"None", "ConnectionRefusedError"}}}

TextA == [op |-> "message", type |-> "str", data |-> "a"]

PingA == [op |-> "ping", type |-> "bytes", data |-> "a"]

NextTraffic ==
    \/ Tick
    \/ \E h \in HttpReqs : proxy(h, {PlainCall})
    \/ \E h \in HttpReqs : fetched(h, PlainResponses)
    \/ open
    \/ start_websocket_connection
    \/ \E ok \in BOOLEAN : connected(ok)
    \/ Len(arrived) < TrafficFrames /\ on_message(TextA)
    \/ Len(arrived) < TrafficFrames /\ on_ping(PingA)
    \/ on_close
    \/ Len(arrived) < TrafficFrames /\ message_cb(TextA)
    \/ message_cb_None
    \/ Len(arrived) < TrafficFrames /\ ping_cb(PingA)

\* ---------------------------------------------------- the specifications

Init == InitSup /\ InitWS /\ InitHTTP /\ InitClock

Next == NextSup

Spec == Init /\ [][Next]_vars

SpecWS == Init /\ [][NextWS]_vars

SpecHTTP == Init /\ [][NextHTTP]_vars

SpecTraffic == Init /\ [][NextTraffic]_vars

\* The primitives of the process return or raise in the end, and a released
\* lock is handed to its first waiter.
FairSpec ==
    /\ Spec
    /\ \A r \in Requests :
        /\ WF_vars(LockGranted(r))
        /\ WF_vars(\E ok \in BOOLEAN : StartReturns(r, ok))
        /\ WF_vars(\E res \in {"true", "false", "raise"} : ReadyReturns(r, res))
        /\ WF_vars(\E ok \in BOOLEAN : KillReturns(r, ok))

\* ------------------------------------------------------------------ claims

\* The calls of target t that spawned, and those in flight between storing the
\* handle and the end of their start/readiness wait.
Spawners(t) ==
    {r \in Requests : req[r].tgt = t /\ req[r].path = "spawn"}

InFlight(t) ==
    {r \in Requests : req[r].tgt = t /\ req[r].pc \in {"starting", "readying", "killing"}}

\* q spawned for t after r did.
SpawnedAfter(t, r, q) ==
    \E i, j \in DOMAIN spawnLog[t] :
        i < j /\ spawnLog[t][i] = r /\ spawnLog[t][j] = q

CohortDone(t) ==
    /\ Cardinality(cohort[t]) >= 2
    /\ \A r \in cohort[t] : Finished(r)

\* C1 as stated: N >= 2 concurrent calls of one target make exactly one spawn
\* in total, and all return success or all observe the same failure.
C1_SingleFlightAsStated ==
    \A t \in Targets :
        CohortDone(t) =>
            /\ Cardinality(Spawners(t) \cap cohort[t]) = 1
            /\ \E e \in Failures \cup {"ok"} : \A r \in cohort[t] : req[r].result = e

\* C1 amended: N >= 2 concurrent calls of one target make exactly one spawn
\* if and only if the first spawn and its readiness check succeed, and then all
\* N return success; a call that fails has made a spawn attempt of its own, so
\* after a failure the calls neither share one spawn nor one outcome.
C1_SingleFlight ==
    \A t \in Targets :
        CohortDone(t) =>
            /\ spawnLog[t] # <<>>
            /\ Head(spawnLog[t]) \in cohort[t]
            /\ (req[Head(spawnLog[t])].result = "ok")
                   <=> (Cardinality(Spawners(t) \cap cohort[t]) = 1)
            /\ req[Head(spawnLog[t])].result = "ok"
                   => \A r \in cohort[t] : req[r].result = "ok"
            /\ \A r \in cohort[t] : req[r].result # "ok" => req[r].path = "spawn"

C1_Witness ==
    \E t \in Targets :
        /\ CohortDone(t)
        /\ Cardinality(cohort[t]) >= 3
        /\ Cardinality(Spawners(t) \cap cohort[t]) = 1
        /\ \A r \in cohort[t] : req[r].result = "ok"

\* C2: a failed start or readiness check leaves no handle behind: the record
\* never holds the handle of a call that has failed, and a call takes the
\* handle-exists path only when a spawn of its target has succeeded, so after
\* any number of consecutive failures the next call spawns afresh.
C2_Rollback ==
    \A t \in Targets :
        /\ state[t].proc # NoProc => req[state[t].proc].result \notin Failures
        /\ (\E r \in Requests : req[r].tgt = t /\ req[r].path \in {"fast", "fast_dead"})
               => \E p \in Spawners(t) : req[p].result = "ok"
        /\ (\A p \in Spawners(t) : req[p].result \in Failures)
               => state[t].proc = NoProc

C2_Witness ==
    \E t \in Targets :
        /\ Len(spawnLog[t]) >= 3
        /\ req[spawnLog[t][1]].result = "StartError"
        /\ req[spawnLog[t][2]].result = "HTTPError500"
        /\ state[t].proc = spawnLog[t][3]

\* C3: when ready() returns False the process is killed once before the call
\* fails; the call then fails with status 500, has issued nothing to the
\* backend, and its handle is gone from the record.
C3_ReadinessTimeout ==
    \A r \in Requests :
        req[r].readyRes = "false" =>
            /\ req[r].kills = 1
            /\ \/ /\ req[r].pc = "killing"
                  /\ ~Finished(r)
               \/ /\ req[r].pc = "failed"
                  /\ req[r].result \in {"HTTPError500", "KillError"}
                  /\ StatusOf(req[r].result) = 500
                  /\ ~req[r].issued
                  /\ \/ state[req[r].tgt].proc = NoProc
                     \/ SpawnedAfter(req[r].tgt, r, state[req[r].tgt].proc)

C3_Witness ==
    \E r \in Requests :
        /\ req[r].readyRes = "false"
        /\ req[r].pc = "failed"
        /\ req[r].result = "HTTPError500"
        /\ procs[r] = "killed"
        /\ state[req[r].tgt].proc = NoProc

\* C4: per target at most one call is between storing its handle and the end
\* of its start/readiness wait, and it is the one whose handle the record
\* holds; at most one spawned process of a target is Starting or Ready; and
\* every spawn but the last of a target has been rolled back.
C4_MutualExclusion ==
    \A t \in Targets :
        /\ Cardinality(InFlight(t)) <= 1
        /\ \A r \in InFlight(t) : state[t].proc = r
        /\ Cardinality({p \in Spawners(t) : req[p].result \notin Failures
                                             /\ req[p].pc # "killing"}) <= 1
        /\ \A i \in 1..(Len(spawnLog[t]) - 1) :
               req[spawnLog[t][i]].result \in Failures

C4_Witness ==
    \E t \in Targets :
        /\ Len(spawnLog[t]) >= 2
        /\ Cardinality(InFlight(t)) = 1
        /\ \E r \in Requests : req[r].tgt = t /\ req[r].pc = "waiting"

\* C5: under the fairness of FairSpec every call of ensure_process returns or
\* raises: a call enters ensure_process once, so in the end no call is inside
\* it any more; a lock is locked only while a call is in its start/readiness
\* wait (so every exit has released it), and while the lock of a target is
\* free its record is Absent or holds a handle that passed the readiness
\* check.
C5_NoWedge ==
    /\ [](\A r \in Requests : Finished(r) => ~req[r].holds)
    /\ [](\A l \in Requests :
            locks[l].locked =>
                \E r \in Requests : req[r].lk = l /\ req[r].holds /\ ~Finished(r))
    /\ [](\A t \in Targets :
            (state[t].proc_lock # NoLock /\ ~locks[state[t].proc_lock].locked
             /\ state[t].proc # NoProc)
                => req[state[t].proc].readyRes = "true")
    /\ [](\A r \in Requests : ~(InEnsure(r) /\ Finished(r)))
    /\ <>[](\A r \in Requests : ~InEnsure(r))

C5_Witness ==
    \E r1, r2, r3 \in Requests :
        /\ req[r1].result = "KillError"
        /\ req[r2].tgt = req[r1].tgt /\ req[r2].result = "StartError"
        /\ req[r3].tgt = req[r1].tgt /\ req[r3].path = "spawn"
        /\ req[r3].result = "ok"
        /\ \A l \in Requests : ~locks[l].locked

C7_SessionContainment ==
    front = "closed" => back # "open"

\* C8: on_close with the backend connection present closes it in the same
\* step; the backend's end-of-stream takes the front-facing connection out of
\* "open" (self.close()) in the same step and writes nothing to it.
C8_ClosePropagation ==
    [][/\ (front # "closed" /\ front' = "closed" /\ has_ws) => back' = "closed"
       /\ (back = "open" /\ back' = "closed" /\ front' # "closed")
              => (front' = "closing" /\ toFront' = toFront)]_vars

C8_Witness ==
    /\ front = "closed"
    /\ has_ws
    /\ back = "closed"
    /\ toBack # <<>>
    /\ toFront # <<>>

\* The frames of `out` appear in the order of their arrival, none twice, and
\* all arrived from `side`.
InArrivalOrder(out, side) ==
    /\ \A i \in DOMAIN out :
           out[i].id \in DOMAIN arrived /\ arrived[out[i].id].side = side
    /\ \A i, j \in DOMAIN out : i < j => out[i].id < out[j].id

\* C9: what is written to the backend is in the order the frames arrived from
\* the front, and what is written to the front is in the order the frames
\* arrived from the backend; no frame is written twice.
C9_FrameOrder ==
    /\ InArrivalOrder(toBack, "front")
    /\ InArrivalOrder(toFront, "back")

C9_Witness ==
    /\ Len(toBack) >= 2
    /\ Len(toFront) >= 1
    /\ toBack[1].id < toFront[1].id
    /\ toFront[1].id < toBack[2].id

\* The frame written for arrival a has a's payload, and a's kind: text for a
\* str message, binary for a bytes message, ping for a ping.
SameKindAndPayload(w) ==
    LET a == arrived[w.id]
    IN  /\ w.data = a.data
        /\ w.kind = CASE a.op = "ping" -> "ping"
                      [] a.op = "message" /\ a.type = "bytes" -> "binary"
                      [] OTHER -> "text"

\* C10: every frame written to either side has the kind and the payload of
\* the frame it relays.
C10_KindAndPayload ==
    /\ \A i \in DOMAIN toBack : SameKindAndPayload(toBack[i])
    /\ \A i \in DOMAIN toFront : SameKindAndPayload(toFront[i])

C10_Witness ==
    /\ \E i \in DOMAIN toBack : toBack[i].kind = "binary" /\ toBack[i].data = "b"
    /\ \E i \in DOMAIN toBack : toBack[i].kind = "ping"
    /\ \E i \in DOMAIN toFront : toFront[i].kind = "text" /\ toFront[i].data = "a"

\* The fetch ended with an answer of the backend, of whatever status, and not
\* with an error below HTTP.
BackendAnswered(response) ==
    response.error.type \in {"None", "HTTPError"}

\* C11: a fetch that ends with an error that is no HTTP-status error gives the
\* client status 500 and the text of the error as body; a fetch that ends with
\* a response of the backend, 4xx and 5xx included, gives the client the
\* backend's status code and reason unchanged.
C11_ErrorPolicy ==
    \A h \in HttpReqs :
        http[h].pc = "done" =>
            LET response == http[h].resp
                w == http[h].client
            IN  /\ ~BackendAnswered(response)
                       => w.status = 500 /\ w.body = <<response.error.text>>
                /\ BackendAnswered(response)
                       => w.status = response.code /\ w.reason = response.reason

\* The backend answered 502 to a request that asked for an upgrade, for which
\* proxy() had set status 500 before the fetch: the client gets the 502.
C11_Witness ==
    \E h \in HttpReqs :
        /\ http[h].pc = "done"
        /\ http[h].call.upgrade
        /\ http[h].resp.code = 502
        /\ http[h].resp.error.type = "HTTPError"
        /\ http[h].client.status = 502
        /\ http[h].client.reason = "Bad Gateway"

\* How many times x occurs in the sequence seq.
Count(seq, x) ==
    Cardinality({i \in DOMAIN seq : seq[i] = x})

\* C12: of a relayed backend response the client gets no Content-Length,
\* Transfer-Encoding, Content-Encoding or Connection header, every other
\* header of the backend as many times as the backend sent it, with each of
\* its values, and no header besides, so none of tornado's defaults.
C12_HeaderStripping ==
    \A h \in HttpReqs :
        (http[h].pc = "done" /\ BackendAnswered(http[h].resp)) =>
            LET sent == http[h].resp.headers
                got == http[h].client.headers
            IN  /\ \A i \in DOMAIN got : got[i].name \notin Stripped
                /\ \A i \in DOMAIN sent :
                       sent[i].name \notin Stripped
                           => Count(got, sent[i]) = Count(sent, sent[i])
                /\ \A i \in DOMAIN got : Count(sent, got[i]) > 0

\* The backend sent a Content-Length and a Set-Cookie header: the client gets
\* the Set-Cookie header alone.
C12_Witness ==
    \E h \in HttpReqs :
        /\ http[h].pc = "done"
        /\ http[h].resp.code = 200
        /\ http[h].resp.headers = <<[name |-> "Content-Length", value |-> "v"],
                                    [name |-> "Set-Cookie", value |-> "a"]>>
        /\ http[h].client.headers = <<[name |-> "Set-Cookie", value |-> "a"]>>

\* The context path as the claim gives it: {base}/{proxy_base} when a proxy
\* base is configured, {base}/proxy/{port} otherwise.
ContextAsStated(c) ==
    IF c.proxy_base # <<>>
    THEN base_url \o <<"/">> \o c.proxy_base
    ELSE base_url \o <<"/", "proxy", "/", str(c.port)>>

QueryAsStated(c) ==
    IF c.query # "" THEN <<"?", c.query>> ELSE <<>>

\* The values the header dict has for name.
Values(headers, name) ==
    {p[2] : p \in {q \in headers : q[1] = name}}

\* C13: in passthrough mode ('/') the outbound URI is
\* http://localhost:<port><subpath>[?query] and both X-Forwarded-Context and
\* X-ProxyContextPath carry the context path; in absolute mode ('') the
\* outbound path is the context path followed by the subpath and neither
\* header is added.
C13_PathRewrite ==
    \A h \in HttpReqs :
        http[h].pc \in {"fetching", "done"} =>
            LET c == http[h].call
                out == http[h].out
                origin == <<"http://localhost", ":", str(c.port)>>
            IN  /\ c.rewrite = "/" =>
                       /\ out.uri = origin \o c.path \o QueryAsStated(c)
                       /\ Values(out.headers, "X-Forwarded-Context") = {ContextAsStated(c)}
                       /\ Values(out.headers, "X-ProxyContextPath") = {ContextAsStated(c)}
                /\ c.rewrite = "" =>
                       /\ out.uri = origin \o ContextAsStated(c) \o c.path
                                        \o QueryAsStated(c)
                       /\ Values(out.headers, "X-Forwarded-Context") = {}
                       /\ Values(out.headers, "X-ProxyContextPath") = {}

\* Base /app, port 9000, request /foo?x=1, passthrough mode, no proxy base.
C13_Witness ==
    \E h \in HttpReqs :
        /\ http[h].pc = "fetching"
        /\ http[h].call.rewrite = "/"
        /\ http[h].call.proxy_base = <<>>
        /\ http[h].out.uri = <<"http://localhost", ":", "9000", "/", "foo", "?", "x=1">>
        /\ Values(http[h].out.headers, "X-Forwarded-Context")
               = {<<"/", "app", "/", "proxy", "/", "9000">>}
        /\ Values(http[h].out.headers, "X-ProxyContextPath")
               = {<<"/", "app", "/", "proxy", "/", "9000">>}

\* C14: a request to a handler whose rewrite mode is neither '/' nor '' fails
\* with the configuration error and no outbound request is built for it,
\* whether a proxy base is configured or not.
C14_UnsupportedRewriteFails ==
    \A h \in HttpReqs :
        (http[h].pc # "new" /\ http[h].call.rewrite \notin {"/", ""})
            => http[h].pc = "error" /\ http[h].out.raised

\* The steps that are a unit of traffic, and what each does to the timestamp.
Recorded ==
    api_last_activity' = clock

FrameArrives ==
    arrived' # arrived

EndOfStream ==
    back = "open" /\ back' = "closed" /\ (front = "closed" \/ front' # "closed")

HandshakeStarts ==
    back = "scheduled" /\ back' = "connecting"

HandshakeDone ==
    back = "connecting" /\ back' = "open"

FetchIssued(h) ==
    http[h].pc = "new" /\ http'[h].pc = "fetching"

FetchReturned(h) ==
    http[h].pc = "fetching" /\ http'[h].pc = "done"

\* C15: the timestamp is overwritten with the time of now by an HTTP request
\* once before its fetch is issued and once after the fetch returned, and by
\* a WebSocket session at every frame and ping from either side, written or
\* dropped, at the end of the backend's stream, and before and after the
\* backend handshake that connects; it never exceeds the clock and, the clock
\* never going back, it never decreases, however the requests interleave.
C15_ActivityTracking ==
    /\ [](api_last_activity <= clock)
    /\ [][/\ api_last_activity' >= api_last_activity
          /\ (FrameArrives \/ EndOfStream \/ HandshakeStarts \/ HandshakeDone)
                 => Recorded
          /\ \A h \in HttpReqs :
                 /\ FetchIssued(h) => Recorded /\ http'[h].recs = 1
                 /\ FetchReturned(h) => Recorded /\ http'[h].recs = 2
                 /\ (~FetchIssued(h) /\ ~FetchReturned(h))
                        => http'[h].recs = http[h].recs]_vars

\* One request has its response, another is waiting for its fetch, a frame
\* of the client was dropped, and the timestamp is the last reading of the
\* clock.
C15_Witness ==
    \E h1, h2 \in HttpReqs :
        /\ http[h1].pc = "done" /\ http[h1].recs = 2
        /\ http[h2].pc = "fetching" /\ http[h2].recs = 1
        /\ Len(arrived) = 1
        /\ arrived[1].side = "front" /\ ~arrived[1].has_ws
        /\ clock = MaxClock
        /\ api_last_activity = clock

\* The handle the record of target t holds has passed start() and ready().
PassedReadiness(t) ==
    /\ state[t].proc # NoProc
    /\ procs[state[t].proc] \in {"running", "exited"}
    /\ req[state[t].proc].readyRes = "true"

\* C16: ensure_process returns success only on a handle whose start and
\* readiness check have succeeded and whose process is Ready; while the guard
\* of a target is free its record is Absent or holds a Ready handle, that of
\* a running process that passed the readiness check; and a supervised
\* request issues its fetch or backend connect only after its ensure_process
\* succeeded.
C16_SuccessMeansReady ==
    /\ \A r \in Requests :
           req[r].result = "ok" =>
               /\ PassedReadiness(req[r].tgt)
               /\ req[r].path \in {"spawn", "fast"}
    /\ \A t \in Targets :
           (state[t].proc_lock # NoLock /\ ~locks[state[t].proc_lock].locked)
               => \/ state[t].proc = NoProc
                  \/ PassedReadiness(t) /\ procs[state[t].proc] = "running"
    /\ \A r \in Requests : req[r].issued => req[r].result = "ok"

\* The request that takes the step changes the handle of t: it holds the lock
\* of t, taken before the step or in it.
HandleWriteGuarded(t) ==
    state'[t].proc # state[t].proc =>
        \E r \in Requests :
            /\ req'[r] # req[r]
            /\ req'[r].tgt = t
            /\ \/ req[r].holds /\ locks[req[r].lk].locked
               \/ req'[r].holds /\ locks'[req'[r].lk].locked

\* The request that takes the step allocates the port of t: it holds the lock
\* of t already.
PortWriteGuarded(t) ==
    state'[t].port # state[t].port =>
        \E r \in Requests :
            /\ req'[r] # req[r]
            /\ req'[r].tgt = t
            /\ req[r].holds /\ locks[req[r].lk].locked

\* The port of t is allocated once: by the readiness probe of the call that
\* holds the lock, or by an arriving request before it has asked for the lock.
PortWriteOnce(t) ==
    state'[t].port # state[t].port =>
        /\ state[t].port = NoPort
        /\ \E r \in Requests :
            /\ req'[r] # req[r]
            /\ req'[r].tgt = t
            /\ \/ req[r].holds /\ locks[req[r].lk].locked
               \/ req[r].pc = "new"

\* C17 as stated: the handle is stored and deleted, and the port allocated,
\* only by a request that holds the guard of the target.
C17_GuardedRecordAsStated ==
    [][\A t \in Targets : HandleWriteGuarded(t) /\ PortWriteGuarded(t)]_vars

\* C17 amended: the handle is stored and deleted only by a request that holds
\* the guard of the target; the port is allocated once and never changed, by
\* the first read of self.port, which the readiness probe makes under the
\* guard and an HTTP verb makes on arrival without it.
C17_GuardedRecord ==
    [][\A t \in Targets : HandleWriteGuarded(t) /\ PortWriteOnce(t)]_vars

\* A handle was stored and deleted under the guard and another is stored,
\* while the port was allocated by an arriving request: no call of the target
\* has reached its readiness probe.
C17_Witness ==
    \E t \in Targets :
        /\ state[t].port # NoPort
        /\ \A r \in Requests : req[r].tgt = t => req[r].pc \notin {"readying", "killing"}
                                               /\ req[r].readyRes = "none"
        /\ Len(spawnLog[t]) = 2
        /\ state[t].proc = spawnLog[t][2]

WrittenToBack(id) ==
    \E i \in DOMAIN toBack : toBack[i].id = id

\* C18: a frame or ping of the client that arrives while self.ws is not
\* assigned, before the handshake has completed or after it has failed, is
\* not written to the backend when it arrives and never later; one that
\* arrives while the backend connection is there and open is written.
C18_LostNotQueued ==
    /\ ~has_ws => toBack = <<>>
    /\ \A id \in DOMAIN arrived :
           arrived[id].side = "front" =>
               /\ ~arrived[id].has_ws => ~WrittenToBack(id)
               /\ (arrived[id].has_ws /\ arrived[id].peer_open) => WrittenToBack(id)

\* A frame of the client arrived before self.ws was assigned, the next after:
\* the backend, still open, was sent the second alone.
C18_Witness ==
    /\ Len(arrived) >= 2
    /\ arrived[1].side = "front" /\ ~arrived[1].has_ws
    /\ arrived[2].side = "front" /\ arrived[2].has_ws
    /\ back = "open"
    /\ Len(toBack) = 1
    /\ toBack[1].id = 2

\* C19: a call waits only on the lock of its own target, which a call of
\* the same target holds or has just released; the locks of distinct targets
\* are distinct, so a spawn in flight for one target delays no call of another.
C19_TargetsIndependent ==
    /\ \A t, u \in Targets :
           (t # u /\ state[t].proc_lock # NoLock)
               => state[t].proc_lock # state[u].proc_lock
    /\ \A r \in Requests :
           req[r].pc = "waiting" =>
               /\ req[r].lk = state[req[r].tgt].proc_lock
               /\ locks[req[r].lk].locked =>
                      \E q \in InFlight(req[r].tgt) : q # r /\ req[q].holds
    /\ \A r \in Requests :
           (req[r].pc # "new" /\ InFlight(req[r].tgt) = {}
            /\ \A q \in Requests : req[q].tgt = req[r].tgt => req[q].pc # "waiting")
               => Finished(r)

\* While the first spawn of one target is still in flight, a later call for
\* another target has spawned and returned.
C19_Witness ==
    \E a, b \in Requests :
        /\ a < b
        /\ req[a].tgt # req[b].tgt
        /\ req[a].pc \in {"starting", "readying"}
        /\ req[b].path = "spawn"
        /\ req[b].result = "ok"

\* C20: a failure is observed only by the call whose own spawn failed; a call
\* that returns without spawning found the handle of a spawn that succeeded;
\* the calls of a target make between 1 and N spawns, one after the other:
\* every spawn but the last has failed, and no call spawns twice.
C20_FailureNotShared ==
    \A t \in Targets :
        LET calls == {r \in Requests : req[r].tgt = t}
            n == Len(spawnLog[t])
        IN  /\ \A r \in calls : req[r].result \in Failures => req[r].path = "spawn"
            /\ \A r \in calls :
                   (Finished(r) /\ req[r].path # "spawn")
                       => /\ req[r].result = "ok"
                          /\ state[t].proc # NoProc
                          /\ req[state[t].proc].result = "ok"
            /\ (\E r \in calls : Finished(r)) => n >= 1
            /\ n <= Cardinality(calls)
            /\ \A i, j \in 1..n : i < j =>
                   /\ spawnLog[t][i] # spawnLog[t][j]
                   /\ req[spawnLog[t][i]].result \in Failures

\* Two calls of one target arrived before either returned; the first spawned
\* and failed, the second then spawned for itself and succeeded.
C20_Witness ==
    \E t \in Targets :
        \E a, b \in cohort[t] :
            /\ a < b
            /\ req[a].result \in Failures
            /\ req[b].path = "spawn"
            /\ req[b].result = "ok"
            /\ spawnLog[t] = <<a, b>>

====
